---- MODULE Spec2Model ----
(***************************************************************************)
(* ComposerButtonBonanza: the layout parser, the action resolver and the   *)
(* host events (activation, toolbar construction, popup-menu display,      *)
(* clicks) of the theme component's api-initializer.                       *)
(*                                                                         *)
(* The repository holds two initializers: api-initializer.js, which keeps  *)
(* the viewport flags in the plan and filters at render time, and an       *)
(* older copy (src/unnamed/part_000) which filters while parsing.  The     *)
(* variable `initializer` says which of the two is running.                *)
(*                                                                         *)
(* JavaScript strings are TLA+ strings.  The layout setting is a sequence  *)
(* of atoms (words and the two separators), so that split() is modelled    *)
(* by what it does.                                                        *)
(***************************************************************************)
EXTENDS Integers, Sequences, FiniteSets, TLC

VARIABLES
    initializer,      \* which initializer file runs: "deferred" | "early"
    layoutSetting,    \* settings.layout, a sequence of atoms
    translationsSetting, \* settings.translations
    currentLocale,    \* I18n.currentLocale()
    desktopView,      \* site.desktopView, owned by the host
    activated,        \* the apiInitializer callback has run
    BUTTONS,          \* module-level BUTTONS
    TRANSLATIONS,     \* module-level TRANSLATIONS
    TOGGLE_GROUPS,    \* module-level TOGGLE_GROUPS
    layout,           \* the closure variable `layout` (the placement plan)
    i18nProperties,   \* the shared localization structure
    adoptedStyleSheets, \* document.adoptedStyleSheets, with each closure's isHidden
    popupOptions,     \* options handed to api.addComposerToolbarPopupMenuOption
    toolbars,         \* per toolbar instance: the addButton() options, and
                      \* the view and the host's refusals at its construction
    activationRejects, \* the host's refusals during activation (history)
    errorLog,         \* number of console.error calls so far (capped)
    menuShown,        \* indices of the popup options the open menu shows
    viewportReadIn,   \* the host events during which site.desktopView was read
    lastEvent         \* what the last host event did (history)

vars == <<initializer, layoutSetting, translationsSetting, currentLocale,
          desktopView, activated, BUTTONS, TRANSLATIONS, TOGGLE_GROUPS, layout,
          i18nProperties, adoptedStyleSheets, popupOptions, toolbars, activationRejects,
          errorLog, menuShown, viewportReadIn, lastEvent>>

(***************************************************************************)
(* JavaScript values that are not strings.                                 *)
(***************************************************************************)
Undefined == "#undefined"
Null == "#null"
JsTrue == "#true"
JsFalse == "#false"

\* ToBoolean: what `if (v)`, `!v`, `v || w` test.
Truthy(v) == v \notin {Undefined, Null, JsFalse, ""}

\* Names every object inherits from Object.prototype; the `in` operator
\* and a property read on a plain object find them.
ObjectPrototypeKeys == {"constructor", "toString", "valueOf", "hasOwnProperty"}

CBBKEY == "ComposerButtonBonanza"

makeButtonIdentifier(buttonName) == CBBKEY \o "-btn-" \o buttonName

Action == [insert |-> "insert", surround |-> "surround", list |-> "list",
           toggleGroup |-> "toggleGroup"]

PlaceTOOLBAR == 1
PlaceGEARMENU == 2
\* currentSection[0] of a value that is no section array is undefined.
PlaceUndefined == 0

SECTIONS ==
    [STYLES |-> [place |-> PlaceTOOLBAR, zone |-> "fontStyles"],
     INSERTIONS |-> [place |-> PlaceTOOLBAR, zone |-> "insertions"],
     EXTRAS |-> [place |-> PlaceTOOLBAR, zone |-> "extras"],
     GEARMENU |-> [place |-> PlaceGEARMENU, zone |-> Undefined]]

\* `entry in SECTIONS`: SECTIONS is a frozen plain object, so inherited
\* names are found too.
InSECTIONS(entry) == entry \in (DOMAIN SECTIONS) \cup ObjectPrototypeKeys

\* SECTIONS[entry]: an inherited name yields a function object, whose [0]
\* and [1] are undefined.
SectionsGet(entry) ==
    IF entry \in DOMAIN SECTIONS
    THEN SECTIONS[entry]
    ELSE [place |-> PlaceUndefined, zone |-> Undefined]

(***************************************************************************)
(* String.prototype.split on a one-character separator, and the text of a  *)
(* run of atoms.                                                           *)
(***************************************************************************)
SepBar == "|"
SepComma == ","

RECURSIVE Split(_, _)
Split(s, sep) ==
    IF \E i \in 1..Len(s) : s[i] = sep
    THEN LET i == CHOOSE k \in 1..Len(s) :
                     s[k] = sep /\ \A j \in 1..(k - 1) : s[j] # sep
         IN  <<SubSeq(s, 1, i - 1)>> \o Split(SubSeq(s, i + 1, Len(s)), sep)
    ELSE <<s>>

RECURSIVE Text(_)
Text(atoms) == IF atoms = <<>> THEN "" ELSE Head(atoms) \o Text(Tail(atoms))

\* array[i] with JavaScript's 0-based index; out of range is undefined.
At(array, i) == IF i + 1 \in 1..Len(array) THEN array[i + 1] ELSE Undefined

(***************************************************************************)
(* parseLayoutEntry.  Operators take intermediate values as parameters     *)
(* (the code's local variables) so that each is computed once.             *)
(***************************************************************************)
\* the strings of entry.split(",")
PieceTexts(pieces) == [i \in 1..Len(pieces) |-> Text(pieces[i])]

\* EntryFromPieces with "X" treated as "M": the entry stays allowed on mobile
EntryFromPiecesXAsMobile(pieces) ==
    [allowDesktop |-> At(pieces, 0) \notin {"X", "M"},
     allowMobile |-> At(pieces, 0) \notin {"D"},
     buttonSpec |->
        IF At(pieces, 0) \in {"X", "M", "D"}
        THEN [name |-> At(pieces, 1), shortcut |-> At(pieces, 2),
              toggleGroup |-> At(pieces, 3)]
        ELSE [name |-> At(pieces, 0), shortcut |-> At(pieces, 1),
              toggleGroup |-> At(pieces, 2)]]

\* EntryFromPieces without pieces.shift(): the flag is taken for the name
EntryFromPiecesNoShift(pieces) ==
    [allowDesktop |-> At(pieces, 0) \notin {"X", "M"},
     allowMobile |-> At(pieces, 0) \notin {"X", "D"},
     buttonSpec |->
        [name |-> At(pieces, 0), shortcut |-> At(pieces, 1),
         toggleGroup |-> At(pieces, 2)]]

\* the optional "when" specifier, then the remaining pieces
EntryFromPieces(pieces) ==
    [allowDesktop |-> At(pieces, 0) \notin {"X", "M"},
     allowMobile |-> At(pieces, 0) \notin {"X", "D"},
     buttonSpec |->
        IF At(pieces, 0) \in {"X", "M", "D"}      \* pieces.shift()
        THEN [name |-> At(pieces, 1), shortcut |-> At(pieces, 2),
              toggleGroup |-> At(pieces, 3)]
        ELSE [name |-> At(pieces, 0), shortcut |-> At(pieces, 1),
              toggleGroup |-> At(pieces, 2)]]

parseLayoutEntry(entry) == EntryFromPieces(PieceTexts(Split(entry, SepComma)))

(***************************************************************************)
(* parseLayout.  ps is the loop's state: the result under construction,    *)
(* TOGGLE_GROUPS, currentSection, and what the loop did on the way.        *)
(***************************************************************************)
\* `name in BUTTONS`: BUTTONS is a plain object built by Object.fromEntries.
InBUTTONS(name, buttons) == name \in (DOMAIN buttons) \cup ObjectPrototypeKeys

\* TOGGLE_GROUPS[g] is truthy: an own list, or an inherited function.
GroupTruthy(groups, g) == g \in (DOMAIN groups) \cup ObjectPrototypeKeys

\* TOGGLE_GROUPS[g] is one of the lists the parser made.
GroupIsList(groups, g) == g \in DOMAIN groups

\* TOGGLE_GROUPS[g] ||= []; TOGGLE_GROUPS[g].push(buttonSpec)
GroupPush(groups, g, buttonSpec) ==
    [k \in (DOMAIN groups) \cup {g} |->
        IF k = g
        THEN (IF g \in DOMAIN groups THEN groups[g] ELSE <<>>) \o <<buttonSpec>>
        ELSE groups[k]]

ParseStart ==
    [toolbar |-> <<>>, gearmenu |-> <<>>, groups |-> <<>>,
     currentSection |-> SECTIONS.EXTRAS, errors |-> 0, readViewport |-> FALSE]

\* catch (error) { console.error(CBBKEY, entry, error); }
ParseCatch(ps) == [ps EXCEPT !.errors = @ + 1]

\* result.toolbar.push(...) / result.gearmenu.push(...) of api-initializer.js
PlaceEntryDeferred(ps, e) ==
    IF ps.currentSection.place = PlaceTOOLBAR
    THEN [ps EXCEPT !.toolbar = Append(@,
              [section |-> ps.currentSection.zone, buttonSpec |-> e.buttonSpec,
               allowDesktop |-> e.allowDesktop, allowMobile |-> e.allowMobile])]
    ELSE IF ps.currentSection.place = PlaceGEARMENU
    THEN [ps EXCEPT !.gearmenu = Append(@,
              [buttonSpec |-> e.buttonSpec,
               allowDesktop |-> e.allowDesktop, allowMobile |-> e.allowMobile])]
    ELSE ParseCatch(ps)

\* the same switch in the older initializer: no flags are stored
PlaceEntryEarly(ps, e) ==
    IF ps.currentSection.place = PlaceTOOLBAR
    THEN [ps EXCEPT !.toolbar = Append(@,
              [section |-> ps.currentSection.zone, buttonSpec |-> e.buttonSpec])]
    ELSE IF ps.currentSection.place = PlaceGEARMENU
    THEN [ps EXCEPT !.gearmenu = Append(@, [buttonSpec |-> e.buttonSpec])]
    ELSE ParseCatch(ps)

PlaceEntry(ps, e, variant) ==
    IF variant = "deferred" THEN PlaceEntryDeferred(ps, e)
    ELSE PlaceEntryEarly(ps, e)

\* the part of the loop body both initializers share: the unknown-button
\* check, the toggle-group push and the placement switch
ParseButtonEntry(ps, e, buttons, variant) ==
    IF ~InBUTTONS(e.buttonSpec.name, buttons)
    THEN ParseCatch(ps)
    ELSE IF Truthy(e.buttonSpec.toggleGroup)
            /\ ~GroupIsList(ps.groups, e.buttonSpec.toggleGroup)
            /\ e.buttonSpec.toggleGroup \in ObjectPrototypeKeys
    THEN ParseCatch(ps)     \* .push of an inherited function: TypeError
    ELSE PlaceEntry(IF Truthy(e.buttonSpec.toggleGroup)
                    THEN [ps EXCEPT !.groups =
                             GroupPush(@, e.buttonSpec.toggleGroup,
                                       e.buttonSpec)]
                    ELSE ps,
                    e, variant)

\* the older initializer's test, which reads site.desktopView
SkippedOnThisView(e, isDesktopView) ==
    (isDesktopView /\ ~e.allowDesktop) \/ (~isDesktopView /\ ~e.allowMobile)

\* a button entry e, parsed: only the older initializer tests the viewport
ParseParsedEntry(ps, e, buttons, variant, isDesktopView) ==
    IF variant = "early" /\ SkippedOnThisView(e, isDesktopView)
    THEN [ps EXCEPT !.readViewport = TRUE]
    ELSE ParseButtonEntry([ps EXCEPT !.readViewport = @ \/ variant = "early"],
                          e, buttons, variant)

\* one iteration of `for (const entry of settings.layout.split("|"))`
ParseEntry(ps, entry, buttons, variant, isDesktopView) ==
    IF InSECTIONS(Text(entry))
    THEN [ps EXCEPT !.currentSection = SectionsGet(Text(entry))]
    ELSE ParseParsedEntry(ps, parseLayoutEntry(entry), buttons, variant,
                          isDesktopView)

RECURSIVE ParseEntries(_, _, _, _, _)
ParseEntries(ps, entries, buttons, variant, isDesktopView) ==
    IF entries = <<>>
    THEN ps
    ELSE ParseEntries(ParseEntry(ps, Head(entries), buttons, variant,
                                 isDesktopView),
                      Tail(entries), buttons, variant, isDesktopView)

parseLayout(setting, buttons, variant, isDesktopView) ==
    ParseEntries(ParseStart, Split(setting, SepBar), buttons, variant,
                 isDesktopView)

(***************************************************************************)
(* Translations and the localization structure                             *)
(***************************************************************************)
\* settings.translations.find((t) => t.locale === locale)?.translations:
\* the table of the first record for the locale, if there is one
FindTranslations(setting, locale) ==
    IF \E i \in 1..Len(setting) : setting[i].locale = locale
    THEN [present |-> TRUE,
          entries |-> setting[CHOOSE i \in 1..Len(setting) :
                          /\ setting[i].locale = locale
                          /\ \A j \in 1..(i - 1) : setting[j].locale # locale
                      ].translations]
    ELSE [present |-> FALSE, entries |-> <<>>]

\* TRANSLATIONS.find((e) => e.key === key)?.value
FindValue(entries, key) ==
    IF \E i \in 1..Len(entries) : entries[i].key = key
    THEN entries[CHOOSE i \in 1..Len(entries) :
                    /\ entries[i].key = key
                    /\ \A j \in 1..(i - 1) : entries[j].key # key].value
    ELSE Undefined

\* Coalesce with `||` in place of `??`: an empty override falls back too
CoalesceFalsy(translation, defaultValue) ==
    IF ~Truthy(translation) THEN defaultValue ELSE translation

\* translation ?? defaultValue
Coalesce(translation, defaultValue) ==
    IF translation \in {Undefined, Null} THEN defaultValue ELSE translation

applyTranslation(defaultValue, buttonName, paramName, translations) ==
    IF ~translations.present
    THEN defaultValue
    ELSE Coalesce(FindValue(translations.entries,
                            buttonName \o "." \o paramName),
                  defaultValue)

\* The localization structure maps <<buttonName, propName>> to the string.
\* i18nProperties[buttonName] ||= {} finds an inherited function for an
\* inherited name, and the property then lands on that function.
setI18nProperty(buttonName, propName, propValue, i18n) ==
    IF ~Truthy(propValue)
    THEN [key |-> Null, i18n |-> i18n]
    ELSE [key |-> CBBKEY \o "." \o buttonName \o "." \o propName,
          i18n |-> IF buttonName \in ObjectPrototypeKeys
                      /\ ~\E p \in DOMAIN i18n : p[1] = buttonName
                   THEN i18n
                   ELSE [p \in (DOMAIN i18n) \cup {<<buttonName, propName>>} |->
                            IF p = <<buttonName, propName>> THEN propValue
                            ELSE i18n[p]]]

(***************************************************************************)
(* The button definitions the model runs with                              *)
(***************************************************************************)
NoDefinition ==
    [name |-> Undefined, action |-> Undefined, prefix |-> Undefined,
     suffix |-> Undefined, exampleText |-> Undefined, lineMode |-> Undefined,
     groupName |-> Undefined, startHidden |-> Undefined, title |-> Undefined,
     nonIcon |-> Undefined, svg_icon |-> Undefined, popupHover |-> Undefined]

\* settings.buttons
settingsButtons ==
    << [NoDefinition EXCEPT !.name = "bold", !.action = "surround",
            !.prefix = "**", !.suffix = "**", !.exampleText = "strong",
            !.title = "Bold", !.svg_icon = "bold"],
       [NoDefinition EXCEPT !.name = "hidden1", !.action = "insert",
            !.prefix = "<!-- -->", !.title = "Hidden", !.svg_icon = "eye"],
       [NoDefinition EXCEPT !.name = "italic", !.action = "surround",
            !.prefix = "_", !.suffix = "_", !.exampleText = "",
            !.lineMode = "multiline", !.title = "Italic",
            !.svg_icon = "italic", !.popupHover = "Emphasis"],
       [NoDefinition EXCEPT !.name = "bullet", !.action = "list",
            !.prefix = "* ", !.exampleText = "item", !.lineMode = "block",
            !.title = "Bullet", !.nonIcon = "B"],
       [NoDefinition EXCEPT !.name = "tog", !.action = "toggleGroup",
            !.groupName = "g", !.startHidden = JsFalse, !.title = "Toggle",
            !.svg_icon = "bars"],
       [NoDefinition EXCEPT !.name = "togH", !.action = "toggleGroup",
            !.groupName = "g", !.startHidden = JsTrue, !.title = "",
            !.svg_icon = "bars"],
       [NoDefinition EXCEPT !.name = "bad", !.action = "shout",
            !.title = "Bad"] >>

\* Object.fromEntries(settings.buttons.map((s) => [s.name, s])): a later
\* definition of a name replaces an earlier one.
ButtonsFromEntries(setting) ==
    [n \in {setting[i].name : i \in 1..Len(setting)} |->
        setting[CHOOSE i \in 1..Len(setting) :
                    setting[i].name = n
                    /\ \A j \in (i + 1)..Len(setting) : setting[j].name # n]]

\* BUTTONS[buttonName]; an inherited name yields a function object, none of
\* whose definition fields is set.
ButtonsGet(buttons, buttonName) ==
    IF buttonName \in DOMAIN buttons THEN buttons[buttonName] ELSE NoDefinition

\* `${v}` in a template literal
ToStr(v) ==
    IF v = Null THEN "null"
    ELSE IF v = Undefined THEN "undefined"
    ELSE IF v = JsTrue THEN "true"
    ELSE IF v = JsFalse THEN "false"
    ELSE v

(***************************************************************************)
(* The action resolver.  A callback is a record; a toggle callback names   *)
(* the style sheet (and isHidden flag) its closure owns by its index in    *)
(* document.adoptedStyleSheets.  A result carries i18nProperties and the   *)
(* adopted style sheets, as the call left them, and ok = FALSE when the    *)
(* call threw.                                                             *)
(***************************************************************************)
NoAction ==
    [kind |-> Undefined, head |-> Undefined, tail |-> Undefined,
     exampleTextKey |-> Undefined, lineMode |-> Undefined, sheet |-> 0]

Thrown(i18n, sheets) ==
    [ok |-> FALSE, action |-> NoAction, i18n |-> i18n, sheets |-> sheets]

makeInsertAction(buttonName, text, i18n, sheets) ==
    [ok |-> TRUE, action |-> [NoAction EXCEPT !.kind = "insert", !.head = text],
     i18n |-> i18n, sheets |-> sheets]

\* k is what setI18nProperty(buttonName, "exampleText", ...) returned
SurroundActionWithKey(head, tail, lineMode, sheets, k) ==
    [ok |-> TRUE,
     action |-> [NoAction EXCEPT !.kind = "surround", !.head = head,
                    !.tail = tail, !.exampleTextKey = k.key,
                    !.lineMode = lineMode],
     i18n |-> k.i18n, sheets |-> sheets]

makeSurroundAction(buttonName, head, tail, exampleText, lineMode, i18n, sheets) ==
    SurroundActionWithKey(head, tail, lineMode, sheets,
        setI18nProperty(buttonName, "exampleText", exampleText, i18n))

ListActionWithKey(head, lineMode, sheets, k) ==
    [ok |-> TRUE,
     action |-> [NoAction EXCEPT !.kind = "list", !.head = head,
                    !.exampleTextKey = k.key, !.lineMode = lineMode],
     i18n |-> k.i18n, sheets |-> sheets]

makeListAction(buttonName, head, exampleText, lineMode, i18n, sheets) ==
    ListActionWithKey(head, lineMode, sheets,
        setI18nProperty(buttonName, "exampleText", exampleText, i18n))

\* the two rules inserted for one member of the group
RulesFor(buttonSpec) ==
    {[selector |-> "class", identifier |-> makeButtonIdentifier(buttonSpec.name)],
     [selector |-> "data-name",
      identifier |-> makeButtonIdentifier(buttonSpec.name)]}

GroupRules(members) ==
    UNION {RulesFor(members[i]) : i \in 1..Len(members)}

\* makeToggleAction without the guard: a group without members gets an
\* empty rule set
makeToggleActionUnguarded(buttonName, groupName, startHidden, groups, i18n, sheets) ==
    [ok |-> TRUE,
     action |-> [NoAction EXCEPT !.kind = "toggleGroup",
                    !.sheet = Len(sheets) + 1],
     i18n |-> i18n,
     sheets |-> Append(sheets,
         [group |-> groupName, owner |-> buttonName,
          rules |-> IF GroupIsList(groups, groupName)
                    THEN GroupRules(groups[groupName]) ELSE {},
          disabled |-> ~Truthy(startHidden),
          isHidden |-> Truthy(startHidden)])]

makeToggleAction(buttonName, groupName, startHidden, groups, i18n, sheets) ==
    IF ~GroupTruthy(groups, groupName)
    THEN Thrown(i18n, sheets)
    ELSE IF ~GroupIsList(groups, groupName)
    THEN Thrown(i18n, sheets)   \* for...of over an inherited function: TypeError
    ELSE [ok |-> TRUE,
          action |-> [NoAction EXCEPT !.kind = "toggleGroup",
                         !.sheet = Len(sheets) + 1],
          i18n |-> i18n,
          sheets |-> Append(sheets,
              [group |-> groupName, owner |-> buttonName,
               rules |-> GroupRules(groups[groupName]),
               disabled |-> ~Truthy(startHidden),
               isHidden |-> Truthy(startHidden)])]

\* the switch of makeAction, given the translated parameters
ActionOfKind(buttonName, kind, prefix, suffix, exampleText, lineMode, groupName, startHidden, groups, i18n, sheets) ==
    IF kind = Action.insert
    THEN makeInsertAction(buttonName, prefix, i18n, sheets)
    ELSE IF kind = Action.surround
    THEN makeSurroundAction(buttonName, prefix, suffix, exampleText, lineMode,
                            i18n, sheets)
    ELSE IF kind = Action.list
    THEN makeListAction(buttonName, prefix, exampleText, lineMode, i18n, sheets)
    ELSE IF kind = Action.toggleGroup
    THEN makeToggleAction(buttonName, groupName, startHidden, groups, i18n,
                          sheets)
    ELSE Thrown(i18n, sheets)

makeAction(buttonName, definition, translations, groups, i18n, sheets) ==
    ActionOfKind(buttonName, definition.action,
        applyTranslation(definition.prefix, buttonName, "prefix", translations),
        applyTranslation(definition.suffix, buttonName, "suffix", translations),
        applyTranslation(definition.exampleText, buttonName, "exampleText",
                         translations),
        definition.lineMode,
        applyTranslation(definition.groupName, buttonName, "groupName",
                         translations),
        applyTranslation(definition.startHidden, buttonName, "startHidden",
                         translations),
        groups, i18n, sheets)

\* the object makeCommonButtonOptions returns; n is what
\* setI18nProperty(buttonName, "nonIcon", ...) returned
CommonOptionsResult(buttonName, definition, titleKey, a, n) ==
    [ok |-> TRUE, i18n |-> n.i18n, sheets |-> a.sheets,
     icon |-> definition.svg_icon,
     nonIconKey |-> IF Truthy(n.key) THEN "composer." \o n.key ELSE Null,
     titleKey |-> "composer." \o ToStr(titleKey),
     elementId |-> makeButtonIdentifier(buttonName),
     action |-> a.action,
     buttonName |-> buttonName,
     definition |-> definition]

\* a is what makeAction returned
CommonOptionsWithAction(buttonName, definition, translations, titleKey, a) ==
    IF ~a.ok
    THEN [ok |-> FALSE, i18n |-> a.i18n, sheets |-> a.sheets]
    ELSE CommonOptionsResult(buttonName, definition, titleKey, a,
             setI18nProperty(buttonName, "nonIcon",
                 applyTranslation(definition.nonIcon, buttonName, "nonIcon",
                                  translations),
                 a.i18n))

\* t is what setI18nProperty(buttonName, "title", ...) returned
CommonOptionsWithTitle(buttonName, definition, translations, groups, sheets, t) ==
    CommonOptionsWithAction(buttonName, definition, translations, t.key,
        makeAction(buttonName, definition, translations, groups, t.i18n,
                   sheets))

CommonOptionsFor(buttonName, definition, translations, groups, i18n, sheets) ==
    CommonOptionsWithTitle(buttonName, definition, translations, groups, sheets,
        setI18nProperty(buttonName, "title",
            applyTranslation(definition.title, buttonName, "title",
                             translations),
            i18n))

makeCommonButtonOptions(buttonSpec, buttons, translations, groups, i18n, sheets) ==
    CommonOptionsFor(buttonSpec.name, ButtonsGet(buttons, buttonSpec.name),
                     translations, groups, i18n, sheets)

(***************************************************************************)
(* Registration with the host.  rs carries i18nProperties, the adopted     *)
(* style sheets, the options the host accepted and the console.error       *)
(* count through a loop; hostRejects names the buttons for which the       *)
(* host's registration call throws.                                        *)
(***************************************************************************)
\* the free identifier `name` in the popup options is window.name
windowName == ""

\* catch (error) { console.error(CBBKEY, error); }
RegisterCatch(rs, i18n, sheets) ==
    [rs EXCEPT !.i18n = i18n, !.sheets = sheets, !.errors = @ + 1]

\* toolbar.addButton({...}), c being the common options
ToolbarButtonWith(rs, toolbarGroup, buttonSpec, hostRejects, c) ==
    IF ~c.ok
    THEN RegisterCatch(rs, c.i18n, c.sheets)
    ELSE IF c.buttonName \in hostRejects
    THEN RegisterCatch(rs, c.i18n, c.sheets)
    ELSE [rs EXCEPT !.i18n = c.i18n, !.sheets = c.sheets,
             !.registered = Append(@,
                 [id |-> c.elementId,
                  group |-> toolbarGroup,
                  icon |-> IF Truthy(c.nonIconKey) THEN Null ELSE c.icon,
                  label |-> c.nonIconKey,
                  title |-> c.titleKey,
                  shortcut |-> buttonSpec.shortcut,
                  perform |-> c.action,
                  preventFocus |-> TRUE,
                  trimLeading |-> TRUE])]

addToolbarButton(rs, toolbarGroup, buttonSpec, buttons, translations, groups, hostRejects) ==
    ToolbarButtonWith(rs, toolbarGroup, buttonSpec, hostRejects,
        makeCommonButtonOptions(buttonSpec, buttons, translations, groups,
                                rs.i18n, rs.sheets))

\* api.addComposerToolbarPopupMenuOption({...}), h being what
\* setI18nProperty(buttonName, "hover", ...) returned
PopupOptionWith(rs, entry, withCondition, hostRejects, c, h) ==
    IF c.buttonName \in hostRejects
    THEN RegisterCatch(rs, h.i18n, c.sheets)
    ELSE [rs EXCEPT !.i18n = h.i18n, !.sheets = c.sheets,
             !.registered = Append(@,
                 [icon |-> c.icon,
                  label |-> c.titleKey,
                  title |-> IF Truthy(h.key) THEN "composer." \o h.key
                            ELSE c.titleKey,
                  name |-> windowName,
                  shortcut |-> entry.buttonSpec.shortcut,
                  action |-> c.action,
                  hasCondition |-> withCondition,
                  allowDesktop |-> IF withCondition THEN entry.allowDesktop
                                   ELSE TRUE,
                  allowMobile |-> IF withCondition THEN entry.allowMobile
                                  ELSE TRUE])]

PopupButtonWith(rs, entry, withCondition, translations, hostRejects, c) ==
    IF ~c.ok
    THEN RegisterCatch(rs, c.i18n, c.sheets)
    ELSE PopupOptionWith(rs, entry, withCondition, hostRejects, c,
             setI18nProperty(c.buttonName, "hover",
                 applyTranslation(c.definition.popupHover, c.buttonName,
                                  "popupHover", translations),
                 c.i18n))

\* addPopupMenuButtonWithCondition (withCondition) and the older
\* addPopupMenuButton, which passes no condition
addPopupMenuButton(rs, entry, withCondition, buttons, translations, groups, hostRejects) ==
    PopupButtonWith(rs, entry, withCondition, translations, hostRejects,
        makeCommonButtonOptions(entry.buttonSpec, buttons, translations, groups,
                                rs.i18n, rs.sheets))

\* for (const entry of layout.gearmenu) { try { ... } catch ... }
RECURSIVE RegisterPopups(_, _, _, _, _, _, _)
RegisterPopups(rs, entries, withCondition, buttons, translations, groups, hostRejects) ==
    IF entries = <<>>
    THEN rs
    ELSE RegisterPopups(
             addPopupMenuButton(rs, Head(entries), withCondition, buttons,
                                translations, groups, hostRejects),
             Tail(entries), withCondition, buttons, translations, groups,
             hostRejects)

\* `if ((isDesktop && !allowDesktop) || (!isDesktop && !allowMobile)) continue`
\* of the onToolbarCreate callback; the older initializer has no such test
SkipOnToolbar(entry, variant, isDesktop) ==
    /\ variant = "deferred"
    /\ (isDesktop /\ ~entry.allowDesktop) \/ (~isDesktop /\ ~entry.allowMobile)

\* the loop with the try around it instead of inside it: the first
\* failure ends the loop
RECURSIVE RegisterToolbarAborting(_, _, _, _, _, _, _, _)
RegisterToolbarAborting(rs, entries, variant, isDesktop, buttons, translations, groups, hostRejects) ==
    IF entries = <<>>
    THEN rs
    ELSE IF SkipOnToolbar(Head(entries), variant, isDesktop)
    THEN RegisterToolbarAborting(rs, Tail(entries), variant, isDesktop, buttons,
                                 translations, groups, hostRejects)
    ELSE IF addToolbarButton(rs, Head(entries).section,
                             Head(entries).buttonSpec, buttons, translations,
                             groups, hostRejects).errors > rs.errors
    THEN addToolbarButton(rs, Head(entries).section, Head(entries).buttonSpec,
                          buttons, translations, groups, hostRejects)
    ELSE RegisterToolbarAborting(
             addToolbarButton(rs, Head(entries).section,
                              Head(entries).buttonSpec, buttons, translations,
                              groups, hostRejects),
             Tail(entries), variant, isDesktop, buttons, translations, groups,
             hostRejects)

\* the loop adding each button in front of those added before it
RECURSIVE RegisterToolbarUnshift(_, _, _, _, _, _, _, _)
RegisterToolbarUnshift(rs, entries, variant, isDesktop, buttons, translations, groups, hostRejects) ==
    IF entries = <<>>
    THEN rs
    ELSE IF SkipOnToolbar(entries[Len(entries)], variant, isDesktop)
    THEN RegisterToolbarUnshift(rs, SubSeq(entries, 1, Len(entries) - 1),
                                variant, isDesktop, buttons, translations,
                                groups, hostRejects)
    ELSE RegisterToolbarUnshift(
             addToolbarButton(rs, entries[Len(entries)].section,
                              entries[Len(entries)].buttonSpec, buttons,
                              translations, groups, hostRejects),
             SubSeq(entries, 1, Len(entries) - 1), variant, isDesktop,
             buttons, translations, groups, hostRejects)

\* the loop of the onToolbarCreate callback
RECURSIVE RegisterToolbar(_, _, _, _, _, _, _, _)
RegisterToolbar(rs, entries, variant, isDesktop, buttons, translations, groups, hostRejects) ==
    IF entries = <<>>
    THEN rs
    ELSE RegisterToolbar(
             IF SkipOnToolbar(Head(entries), variant, isDesktop)
             THEN rs
             ELSE addToolbarButton(rs, Head(entries).section,
                                   Head(entries).buttonSpec, buttons,
                                   translations, groups, hostRejects),
             Tail(entries), variant, isDesktop, buttons, translations,
             groups, hostRejects)

(***************************************************************************)
(* Settings and host inputs the model runs over                            *)
(***************************************************************************)
\* an upper bound on the toolbar instances the host constructs
MaxToolbars == 2

\* the example of the specification:
\* "STYLES|bold,shift+b|EXTRAS|X,hidden1|GEARMENU|italic"
ExampleLayout ==
    <<"STYLES", "|", "bold", ",", "shift+b", "|", "EXTRAS", "|", "X", ",",
      "hidden1", "|", "GEARMENU", "|", "italic">>

\* "tog|M,bold,,g|GEARMENU|D,italic,,g|togH"
ToggleLayout ==
    <<"tog", "|", "M", ",", "bold", ",", ",", "g", "|", "GEARMENU", "|",
      "D", ",", "italic", ",", ",", "g", "|", "togH">>

LayoutChoices ==
    { ExampleLayout,
      ToggleLayout,
      \* "GEARMENU|tog|bad|italic|STYLES|bold|bad|bullet|ghost|tog"
      <<"GEARMENU", "|", "tog", "|", "bad", "|", "italic", "|", "STYLES", "|",
        "bold", "|", "bad", "|", "bullet", "|", "ghost", "|", "tog">>,
      \* "bold|constructor|italic|GEARMENU|hidden1"
      <<"bold", "|", "constructor", "|", "italic", "|", "GEARMENU", "|",
        "hidden1">>,
      \* "INSERTIONS|togH,ctrl+h|X,hidden1,,g|italic,,h|GEARMENU|D,tog|bullet,,g|X,bold"
      <<"INSERTIONS", "|", "togH", ",", "ctrl+h", "|", "X", ",", "hidden1",
        ",", ",", "g", "|", "italic", ",", ",", "h", "|", "GEARMENU", "|",
        "D", ",", "tog", "|", "bullet", ",", ",", "g", "|", "X", ",", "bold">>,
      \* ""
      <<>> }

TranslationChoices ==
    { << [locale |-> "fr",
          translations |-> << [key |-> "bold.title", value |-> "Gras"],
                              [key |-> "tog.groupName", value |-> "h"],
                              [key |-> "italic.exampleText",
                               value |-> "accent"] >>] >> }

LocaleChoices == {"en", "fr"}

\* the buttons whose registration the host may refuse with an exception
HostRejectChoices == {{}, {"italic", "bold"}}

NoEvent == [kind |-> "none"]

InitWith(layouts, translationTables) ==
    /\ initializer \in {"deferred", "early"}
    /\ layoutSetting \in layouts
    /\ translationsSetting \in translationTables
    /\ currentLocale \in LocaleChoices
    /\ desktopView \in BOOLEAN
    /\ activated = FALSE
    /\ BUTTONS = <<>>
    /\ TRANSLATIONS = [present |-> FALSE, entries |-> <<>>]
    /\ TOGGLE_GROUPS = <<>>
    /\ layout = [toolbar |-> <<>>, gearmenu |-> <<>>]
    /\ i18nProperties = <<>>
    /\ adoptedStyleSheets = <<>>
    /\ popupOptions = <<>>
    /\ toolbars = <<>>
    /\ activationRejects = {}
    /\ errorLog = 0
    /\ menuShown = {}
    /\ viewportReadIn = {}
    /\ lastEvent = NoEvent

Init == InitWith(LayoutChoices, TranslationChoices)

(***************************************************************************)
(* Host events                                                             *)
(***************************************************************************)
NoRegistrations(i18n, sheets) ==
    [i18n |-> i18n, sheets |-> sheets, registered |-> <<>>, errors |-> 0]

\* the end of the apiInitializer callback: ps is what parseLayout returned
\* (with TOGGLE_GROUPS), rs what the gear-menu loop left
Activated(hostRejects, buttons, translations, ps, rs) ==
    /\ BUTTONS' = buttons
    /\ TRANSLATIONS' = translations
    /\ TOGGLE_GROUPS' = ps.groups
    /\ layout' = [toolbar |-> ps.toolbar, gearmenu |-> ps.gearmenu]
    /\ i18nProperties' = rs.i18n
    /\ adoptedStyleSheets' = rs.sheets
    /\ popupOptions' = rs.registered
    /\ activationRejects' = hostRejects
    /\ errorLog' = ps.errors + rs.errors
    /\ viewportReadIn' = IF ps.readViewport THEN {"activation"} ELSE {}
    /\ lastEvent' = [kind |-> "activate", hostRejects |-> hostRejects,
                     sheetsBefore |-> Len(adoptedStyleSheets)]

ActivateParsed(hostRejects, buttons, translations, ps) ==
    Activated(hostRejects, buttons, translations, ps,
        RegisterPopups(NoRegistrations(<<>>, adoptedStyleSheets), ps.gearmenu,
                       initializer = "deferred", buttons, translations,
                       ps.groups, hostRejects))

ActivateWith(hostRejects, buttons, translations) ==
    ActivateParsed(hostRejects, buttons, translations,
        parseLayout(layoutSetting, buttons, initializer, desktopView))

\* the apiInitializer callback
Activate ==
    /\ ~activated
    /\ activated' = TRUE
    /\ \E hostRejects \in HostRejectChoices :
        ActivateWith(hostRejects, ButtonsFromEntries(settingsButtons),
                     FindTranslations(translationsSetting, currentLocale))
    /\ UNCHANGED <<initializer, layoutSetting, translationsSetting,
                   currentLocale, desktopView, toolbars, menuShown>>

ToolbarCreated(hostRejects, rs) ==
    /\ i18nProperties' = rs.i18n
    /\ adoptedStyleSheets' = rs.sheets
    /\ toolbars' = Append(toolbars,
                          [buttons |-> rs.registered, isDesktop |-> desktopView,
                           hostRejects |-> hostRejects])
    /\ errorLog' = errorLog + rs.errors
    /\ lastEvent' = [kind |-> "toolbarCreate", hostRejects |-> hostRejects,
                     isDesktop |-> desktopView,
                     sheetsBefore |-> Len(adoptedStyleSheets)]

\* the callback given to api.onToolbarCreate, run once per toolbar instance
ToolbarCreate ==
    /\ activated
    /\ Len(toolbars) < MaxToolbars
    /\ \E hostRejects \in HostRejectChoices :
        ToolbarCreated(hostRejects,
            RegisterToolbar(NoRegistrations(i18nProperties, adoptedStyleSheets),
                            layout.toolbar, initializer, desktopView, BUTTONS,
                            TRANSLATIONS, TOGGLE_GROUPS, hostRejects))
    /\ viewportReadIn' = IF initializer = "deferred"
                         THEN viewportReadIn \cup {"toolbarCreate"}
                         ELSE viewportReadIn
    /\ UNCHANGED <<initializer, layoutSetting, translationsSetting,
                   currentLocale, desktopView, activated, BUTTONS,
                   TRANSLATIONS, TOGGLE_GROUPS, layout, popupOptions,
                   activationRejects, menuShown>>

\* the host switches between the desktop and the mobile view
SetViewport ==
    /\ desktopView' = ~desktopView
    /\ menuShown' = {}
    /\ lastEvent' = [kind |-> "setViewport"]
    /\ UNCHANGED <<initializer, layoutSetting, translationsSetting,
                   currentLocale, activated, BUTTONS, TRANSLATIONS,
                   TOGGLE_GROUPS, layout, i18nProperties, adoptedStyleSheets,
                   popupOptions, toolbars, activationRejects, errorLog,
                   viewportReadIn>>

\* condition: (composer) => ... of a popup option; an option without a
\* condition is always shown
Condition(option, isDesktopView) ==
    IF option.hasCondition
    THEN (isDesktopView /\ option.allowDesktop)
             \/ (~isDesktopView /\ option.allowMobile)
    ELSE TRUE

\* the host opens the popup menu and evaluates every option's condition
MenuDisplay ==
    /\ activated
    /\ popupOptions # <<>>
    /\ menuShown' = {i \in 1..Len(popupOptions) :
                        Condition(popupOptions[i], desktopView)}
    /\ viewportReadIn' = IF \E i \in 1..Len(popupOptions) :
                                popupOptions[i].hasCondition
                         THEN viewportReadIn \cup {"menuDisplay"}
                         ELSE viewportReadIn
    /\ lastEvent' = [kind |-> "menuDisplay", isDesktop |-> desktopView]
    /\ UNCHANGED <<initializer, layoutSetting, translationsSetting,
                   currentLocale, desktopView, activated, BUTTONS,
                   TRANSLATIONS, TOGGLE_GROUPS, layout, i18nProperties,
                   adoptedStyleSheets, popupOptions, toolbars,
                   activationRejects, errorLog>>

\* a toggle callback that only ever hides
PerformSheetsHideOnly(action, sheets) ==
    IF action.kind = "toggleGroup"
    THEN [sheets EXCEPT ![action.sheet] =
             [@ EXCEPT !.isHidden = TRUE, !.disabled = FALSE]]
    ELSE sheets

\* a toggle callback that flips every rule set of its group
PerformSheetsWholeGroup(action, sheets) ==
    IF action.kind = "toggleGroup"
    THEN [k \in 1..Len(sheets) |->
             IF sheets[k].group = sheets[action.sheet].group
             THEN [sheets[k] EXCEPT !.isHidden = ~sheets[k].isHidden,
                                    !.disabled = sheets[k].isHidden]
             ELSE sheets[k]]
    ELSE sheets

\* what running a callback does to the style sheets: a toggle callback
\* flips its closure's isHidden and sets its sheet's disabled to !isHidden
PerformSheets(action, sheets) ==
    IF action.kind = "toggleGroup"
    THEN [sheets EXCEPT ![action.sheet] =
             [@ EXCEPT !.isHidden = ~sheets[action.sheet].isHidden,
                       !.disabled = sheets[action.sheet].isHidden]]
    ELSE sheets

\* the mutator of the edit context a callback calls, with its arguments
PerformCall(action) ==
    IF action.kind = "insert"
    THEN [op |-> "addText", text |-> action.head]
    ELSE IF action.kind = "surround"
    THEN [op |-> "applySurround", head |-> action.head, tail |-> action.tail,
          exampleTextKey |-> action.exampleTextKey,
          multiline |-> action.lineMode = "multiline",
          useBlockMode |-> action.lineMode = "block"]
    ELSE IF action.kind = "list"
    THEN [op |-> "applyList", head |-> action.head,
          exampleTextKey |-> action.exampleTextKey,
          multiline |-> action.lineMode = "multiline",
          useBlockMode |-> action.lineMode = "block"]
    ELSE [op |-> "none"]

(***************************************************************************)
(* The edit context.  A selection is a start offset and a text, the text   *)
(* a sequence of characters.                                               *)
(***************************************************************************)
\* the characters /\s/ matches, among those the model uses
Whitespace == {" ", "\t", "\n"}

\* the value of freshStart when the while loop of trimLeading ends
RECURSIVE FreshStart(_)
FreshStart(value) ==
    IF value # <<>> /\ Head(value) \in Whitespace
    THEN 1 + FreshStart(Tail(value))
    ELSE 0

\* trimLeading that also drops the whitespace at the end of the text
trimLeadingAndTrailing(selection) ==
    IF selection.value # <<>>
       /\ selection.value[Len(selection.value)] \in Whitespace
    THEN [start |-> selection.start + FreshStart(selection.value),
          value |-> SubSeq(selection.value, FreshStart(selection.value) + 1,
                           Len(selection.value) - 1)]
    ELSE [start |-> selection.start + FreshStart(selection.value),
          value |-> SubSeq(selection.value, FreshStart(selection.value) + 1,
                           Len(selection.value))]

\* the selection as trimLeading leaves it
trimLeading(selection) ==
    IF FreshStart(selection.value) > 0
    THEN [start |-> selection.start + FreshStart(selection.value),
          value |-> SubSeq(selection.value, FreshStart(selection.value) + 1,
                           Len(selection.value))]
    ELSE selection

\* the key under which the host finds i18nProperties[buttonName][propName]:
\* i18nProperties is composer[CBBKEY] of the locale's translation table
HostKeyOf(p) == "composer." \o CBBKEY \o "." \o p[1] \o "." \o p[2]

\* the host's rendering of a key: the registered string, or the marker of
\* a missing translation
HostTranslate(key, i18n, locale) ==
    IF \E p \in DOMAIN i18n : HostKeyOf(p) = key
    THEN i18n[CHOOSE p \in DOMAIN i18n : HostKeyOf(p) = key]
    ELSE "[" \o locale \o "." \o key \o "]"

\* the host's wrap-with-head-tail: the example text of the key when the
\* selection is empty, the selected text otherwise
HostApplySurround(selected, head, tail, exampleTextKey, i18n, locale) ==
    IF selected.value = <<>>
    THEN ToStr(head)
             \o HostTranslate("composer." \o ToStr(exampleTextKey), i18n, locale)
             \o ToStr(tail)
    ELSE ToStr(head) \o Text(selected.value) \o ToStr(tail)

\* the text a callback's mutator writes in place of the selection; Null
\* when the callback calls no mutator (the list edit is left to the host)
PerformEdit(action, selected, i18n, locale) ==
    IF action.kind = "insert" THEN ToStr(action.head)
    ELSE IF action.kind = "surround"
    THEN HostApplySurround(selected, action.head, action.tail,
                           action.exampleTextKey, i18n, locale)
    ELSE IF action.kind = "list" THEN Undefined
    ELSE Null

\* a click: `given` is the selection of the edit context the host hands
\* over, `selected` the selection when the button's callback runs
Clicked(surface, id, action, given, selected) ==
    /\ adoptedStyleSheets' = PerformSheets(action, adoptedStyleSheets)
    /\ lastEvent' = [kind |-> "click", surface |-> surface, id |-> id,
                     action |-> action, call |-> PerformCall(action),
                     given |-> given, selected |-> selected,
                     edit |-> PerformEdit(action, selected, i18nProperties,
                                          currentLocale)]

\* the selections a click is tried with
SelectionChoices ==
    {[start |-> 0, value |-> <<>>],
     [start |-> 2, value |-> <<"X">>],
     [start |-> 1, value |-> <<" ", "\n", "X", " ">>]}

\* perform: action of a toolbar button; the callback gets the edit context
\* as the host hands it over
ClickToolbarWith(selections) ==
    /\ \E t \in 1..Len(toolbars) : \E i \in 1..Len(toolbars[t].buttons) :
       \E given \in selections :
        Clicked("toolbar", toolbars[t].buttons[i].id,
                toolbars[t].buttons[i].perform, given, given)
    /\ UNCHANGED <<initializer, layoutSetting, translationsSetting,
                   currentLocale, desktopView, activated, BUTTONS,
                   TRANSLATIONS, TOGGLE_GROUPS, layout, i18nProperties,
                   popupOptions, toolbars, activationRejects, errorLog,
                   menuShown, viewportReadIn>>

\* a click on button i of toolbar instance t
ClickToolbar == ClickToolbarWith(SelectionChoices)

\* action: (toolbarEvent) => { trimLeading(toolbarEvent.selected);
\* action(toolbarEvent); } of an option of the open popup menu; the click
\* closes the menu
ClickPopupWith(selections) ==
    /\ \E i \in menuShown : \E given \in selections :
        Clicked("popup", popupOptions[i].label, popupOptions[i].action,
                given, trimLeading(given))
    /\ menuShown' = {}
    /\ UNCHANGED <<initializer, layoutSetting, translationsSetting,
                   currentLocale, desktopView, activated, BUTTONS,
                   TRANSLATIONS, TOGGLE_GROUPS, layout, i18nProperties,
                   popupOptions, toolbars, activationRejects, errorLog,
                   viewportReadIn>>

ClickPopup == ClickPopupWith(SelectionChoices)

Next ==
    \/ Activate
    \/ ToolbarCreate
    \/ SetViewport
    \/ MenuDisplay
    \/ ClickToolbar
    \/ ClickPopup

Spec == Init /\ [][Next]_vars

(***************************************************************************)
(* What the layout setting asks for, read off its tokens                   *)
(***************************************************************************)
SectionKeywords == {"STYLES", "INSERTIONS", "EXTRAS", "GEARMENU"}

TargetOfKeyword(keyword) ==
    IF keyword = "STYLES" THEN "fontStyles"
    ELSE IF keyword = "INSERTIONS" THEN "insertions"
    ELSE IF keyword = "EXTRAS" THEN "extras"
    ELSE "popup menu"

\* the names of the configured buttons
ButtonSet == {settingsButtons[i].name : i \in 1..Len(settingsButtons)}

Tokens == Split(layoutSetting, SepBar)

IsKeyword(token) == Text(token) \in SectionKeywords

TokenSpec(token) == parseLayoutEntry(token).buttonSpec

\* a button entry that names a configured button
IsKnownEntry(token) == ~IsKeyword(token) /\ TokenSpec(token).name \in ButtonSet

\* a button entry that names no configured button
IsUnknownEntry(token) == ~IsKeyword(token) /\ TokenSpec(token).name \notin ButtonSet

\* the entries the tokens ask for, in token order, each with the target
\* current at its token
RECURSIVE ExpectedEntries(_, _)
ExpectedEntries(tokens, target) ==
    IF tokens = <<>> THEN <<>>
    ELSE IF IsKeyword(Head(tokens))
    THEN ExpectedEntries(Tail(tokens), TargetOfKeyword(Text(Head(tokens))))
    ELSE IF IsKnownEntry(Head(tokens))
    THEN <<[name |-> TokenSpec(Head(tokens)).name, target |-> target]>>
             \o ExpectedEntries(Tail(tokens), target)
    ELSE ExpectedEntries(Tail(tokens), target)

InPopup(e) == e.target = "popup menu"
InToolbar(e) == e.target # "popup menu"

PlanToolbarEntries(plan) ==
    [i \in 1..Len(plan.toolbar) |->
        [name |-> plan.toolbar[i].buttonSpec.name,
         target |-> plan.toolbar[i].section]]

PlanPopupEntries(plan) ==
    [i \in 1..Len(plan.gearmenu) |->
        [name |-> plan.gearmenu[i].buttonSpec.name, target |-> "popup menu"]]

\* C1: after parsing, the plan holds each button entry whose name is in
\* the button set exactly once, in token order, under the target current
\* at its token ('extras' before any section keyword).
C1_PlanMatchesTokens ==
    activated =>
        /\ PlanToolbarEntries(layout)
               = SelectSeq(ExpectedEntries(Tokens, "extras"), InToolbar)
        /\ PlanPopupEntries(layout)
               = SelectSeq(ExpectedEntries(Tokens, "extras"), InPopup)

RECURSIVE JoinBar(_)
JoinBar(tokens) ==
    IF tokens = <<>> THEN <<>>
    ELSE IF Len(tokens) = 1 THEN Head(tokens)
    ELSE Head(tokens) \o <<SepBar>> \o JoinBar(Tail(tokens))

KnownOrKeyword(token) == ~IsUnknownEntry(token)

\* the plan of a layout setting, as the running initializer parses it
PlanOf(setting) ==
    [toolbar |-> parseLayout(setting, BUTTONS, initializer, desktopView).toolbar,
     gearmenu |-> parseLayout(setting, BUTTONS, initializer,
                              desktopView).gearmenu]

GroupMemberNames(groups) ==
    UNION {{groups[g][i].name : i \in 1..Len(groups[g])} : g \in DOMAIN groups}

\* C2: entries with unknown names are absent from the plan and from every
\* toggle group, and the plan is the plan of the layout with the
\* unknown-name tokens deleted.
C2_UnknownEntriesIsolated ==
    lastEvent.kind = "activate" =>
        /\ \A i \in 1..Len(layout.toolbar) :
               layout.toolbar[i].buttonSpec.name \in ButtonSet
        /\ \A i \in 1..Len(layout.gearmenu) :
               layout.gearmenu[i].buttonSpec.name \in ButtonSet
        /\ GroupMemberNames(TOGGLE_GROUPS) \subseteq ButtonSet
        /\ layout = PlanOf(JoinBar(SelectSeq(Tokens, KnownOrKeyword)))

\* the names of the toggle groups the entries of configured buttons declare
DeclaredGroups ==
    {TokenSpec(Tokens[i]).toggleGroup :
        i \in {j \in 1..Len(Tokens) :
                  IsKnownEntry(Tokens[j])
                  /\ Truthy(TokenSpec(Tokens[j]).toggleGroup)}}

\* the buttons whose entry declares g
DeclaredMembers(g) ==
    {TokenSpec(Tokens[i]).name :
        i \in {j \in 1..Len(Tokens) :
                  IsKnownEntry(Tokens[j])
                  /\ TokenSpec(Tokens[j]).toggleGroup = g}}

RulesOfNames(names) ==
    UNION {RulesFor([name |-> n]) : n \in names}

\* C3: every toggle group's membership is the set of buttons whose entry
\* declared it, wherever the entries stand, and every rule set built for a
\* group covers that full membership.
C3_MembershipIsDeclaration ==
    activated =>
        /\ DOMAIN TOGGLE_GROUPS = DeclaredGroups
        /\ \A g \in DOMAIN TOGGLE_GROUPS :
               {TOGGLE_GROUPS[g][i].name : i \in 1..Len(TOGGLE_GROUPS[g])}
                   = DeclaredMembers(g)
        /\ \A k \in 1..Len(adoptedStyleSheets) :
               adoptedStyleSheets[k].rules
                   = RulesOfNames(DeclaredMembers(adoptedStyleSheets[k].group))

\* C5: the viewport is never read during activation; its reads happen in
\* toolbar-construction and menu-display events only.
C5_NoViewportReadInActivation ==
    viewportReadIn \subseteq {"toolbarCreate", "menuDisplay"}

(***************************************************************************)
(* The example scenario                                                    *)
(***************************************************************************)
InFontStyles(button) == button.group = "fontStyles"
InExtras(button) == button.group = "extras"

ItalicLabel == "composer." \o CBBKEY \o ".italic.title"

\* C4: with the example layout, every toolbar instance (desktop or mobile)
\* gets exactly bold, with shortcut "shift+b", in fontStyles and nothing
\* in extras, and the popup menu holds exactly italic, shown on both
\* views (a button the host refuses being the only exception).
C4_ExampleScenario ==
    (layoutSetting = ExampleLayout /\ activated) =>
        /\ \A t \in 1..Len(toolbars) :
            /\ SelectSeq(toolbars[t].buttons, InExtras) = <<>>
            /\ \A i \in 1..Len(toolbars[t].buttons) :
                   InFontStyles(toolbars[t].buttons[i])
            /\ IF "bold" \in toolbars[t].hostRejects
               THEN toolbars[t].buttons = <<>>
               ELSE /\ Len(toolbars[t].buttons) = 1
                    /\ toolbars[t].buttons[1].id = makeButtonIdentifier("bold")
                    /\ toolbars[t].buttons[1].shortcut = "shift+b"
                    /\ toolbars[t].buttons[1].perform.kind = "surround"
        /\ PlanPopupEntries(layout)
               = <<[name |-> "italic", target |-> "popup menu"]>>
        /\ IF "italic" \in activationRejects
           THEN popupOptions = <<>>
           ELSE /\ Len(popupOptions) = 1
                /\ popupOptions[1].label = ItalicLabel
                /\ popupOptions[1].action.kind = "surround"
                /\ Condition(popupOptions[1], TRUE)
                /\ Condition(popupOptions[1], FALSE)

\* the example layout, a desktop and a mobile toolbar built, the menu open
C4_Witness ==
    /\ layoutSetting = ExampleLayout
    /\ Len(toolbars) = 2
    /\ toolbars[1].isDesktop # toolbars[2].isDesktop
    /\ toolbars[1].hostRejects = {} /\ toolbars[2].hostRejects = {}
    /\ Len(toolbars[1].buttons) = 1 /\ Len(toolbars[2].buttons) = 1
    /\ menuShown = {1}

(***************************************************************************)
(* Toggle groups                                                           *)
(***************************************************************************)
\* the toggle callbacks the host holds
ToggleCallbacks ==
    {a \in UNION {{toolbars[t].buttons[i].perform :
                      i \in 1..Len(toolbars[t].buttons)} :
                  t \in 1..Len(toolbars)}
           \cup {popupOptions[i].action : i \in 1..Len(popupOptions)} :
        a.kind = "toggleGroup"}

\* the visibility state a callback's closure owns
VisibilityState(sheets, a) ==
    [isHidden |-> sheets[a.sheet].isHidden, disabled |-> sheets[a.sheet].disabled]

\* C6: for every toggle callback, one invocation flips the hidden flag
\* and the enabled state of its rule set, and two invocations in
\* succession restore both.
C6_ToggleTwiceRestores ==
    \A a \in ToggleCallbacks :
        /\ VisibilityState(adoptedStyleSheets, a).disabled
               = ~VisibilityState(adoptedStyleSheets, a).isHidden
        /\ VisibilityState(PerformSheets(a, adoptedStyleSheets), a)
               = [isHidden |-> ~VisibilityState(adoptedStyleSheets, a).isHidden,
                  disabled |-> ~VisibilityState(adoptedStyleSheets, a).disabled]
        /\ VisibilityState(
               PerformSheets(a, PerformSheets(a, adoptedStyleSheets)), a)
               = VisibilityState(adoptedStyleSheets, a)

\* callbacks that start hidden and that start shown exist, and one of
\* them has just been clicked and now hides its group
C6_Witness ==
    /\ \E a \in ToggleCallbacks : adoptedStyleSheets[a.sheet].owner = "togH"
    /\ \E a \in ToggleCallbacks : adoptedStyleSheets[a.sheet].owner = "tog"
    /\ lastEvent.kind = "click"
    /\ lastEvent.action.kind = "toggleGroup"
    /\ adoptedStyleSheets[lastEvent.action.sheet].owner = "tog"
    /\ adoptedStyleSheets[lastEvent.action.sheet].isHidden

SheetsOfGroup(sheets, g) == {k \in 1..Len(sheets) : sheets[k].group = g}

\* the members of g are hidden: some adopted rule set for g is enabled
MembersHidden(sheets, g) == \E k \in SheetsOfGroup(sheets, g) : ~sheets[k].disabled

\* this step is a click on a button that controls a toggle group
IsToggleClick ==
    /\ lastEvent'.kind = "click"
    /\ lastEvent'.action.kind = "toggleGroup"
    /\ adoptedStyleSheets' # adoptedStyleSheets

\* C7: every toggle group has one shared flag and rule set, however many
\* toolbar instances and controlling buttons there are, and every click
\* on a controlling button flips the visibility of the group's members.
C7_SingleSharedFlag ==
    [][ /\ \A k \in 1..Len(adoptedStyleSheets') :
               SheetsOfGroup(adoptedStyleSheets', adoptedStyleSheets'[k].group)
                   = {k}
        /\ IsToggleClick =>
               MembersHidden(adoptedStyleSheets',
                             adoptedStyleSheets'[lastEvent'.action.sheet].group)
                 # MembersHidden(adoptedStyleSheets,
                             adoptedStyleSheets[lastEvent'.action.sheet].group)
      ]_vars

\* the group a toggleGroup button controls, after locale resolution
ResolvedGroup(buttonName) ==
    applyTranslation(ButtonsGet(BUTTONS, buttonName).groupName, buttonName,
                     "groupName", TRANSLATIONS)

ToggleButtons == {b \in DOMAIN BUTTONS : BUTTONS[b].action = Action.toggleGroup}

\* the parsed layout has no member entry for the button's group
Memberless(buttonName) == ResolvedGroup(buttonName) \notin DOMAIN TOGGLE_GROUPS

\* the entry is wanted on the view: the older initializer decided that
\* while parsing
WantedOn(entry, isDesktop) ==
    \/ initializer = "early"
    \/ (isDesktop /\ entry.allowDesktop) \/ (~isDesktop /\ entry.allowMobile)

\* the construction of buttonName's action has been attempted
ConstructionAttempted(buttonName) ==
    \/ \E i \in 1..Len(layout.gearmenu) :
           layout.gearmenu[i].buttonSpec.name = buttonName
    \/ \E t \in 1..Len(toolbars) : \E i \in 1..Len(layout.toolbar) :
           /\ layout.toolbar[i].buttonSpec.name = buttonName
           /\ WantedOn(layout.toolbar[i], toolbars[t].isDesktop)

\* C8: a toggleGroup button whose group has no member entries fails when
\* its action is constructed: an error is logged, no rule set is adopted
\* for it and it is not registered; every callback that was constructed
\* owns an adopted rule set over a non-empty membership.
C8_MemberlessGroupFailsAtConstruction ==
    activated =>
        /\ \A b \in ToggleButtons :
               Memberless(b) =>
                   /\ \A k \in 1..Len(adoptedStyleSheets) :
                          adoptedStyleSheets[k].owner # b
                   /\ \A t \in 1..Len(toolbars) :
                          \A i \in 1..Len(toolbars[t].buttons) :
                              toolbars[t].buttons[i].id # makeButtonIdentifier(b)
                   /\ ConstructionAttempted(b) => errorLog >= 1
        /\ \A a \in ToggleCallbacks :
               /\ a.sheet \in 1..Len(adoptedStyleSheets)
               /\ adoptedStyleSheets[a.sheet].group \in DOMAIN TOGGLE_GROUPS
               /\ TOGGLE_GROUPS[adoptedStyleSheets[a.sheet].group] # <<>>
               /\ adoptedStyleSheets[a.sheet].rules # {}
        /\ \A k \in 1..Len(adoptedStyleSheets) :
               ~Memberless(adoptedStyleSheets[k].owner)

\* tog's group has no members, and tog's construction was attempted for
\* the popup menu and for a toolbar
C8_Witness ==
    /\ activated
    /\ Memberless("tog")
    /\ \E i \in 1..Len(layout.gearmenu) :
           layout.gearmenu[i].buttonSpec.name = "tog"
    /\ \E i \in 1..Len(layout.toolbar) :
           layout.toolbar[i].buttonSpec.name = "tog"
    /\ Len(toolbars) >= 1
    /\ errorLog >= 2

(***************************************************************************)
(* Error isolation at registration                                         *)
(***************************************************************************)
\* constructing or registering the button fails
Fails(buttonName, hostRejects) ==
    \/ ButtonsGet(BUTTONS, buttonName).action
           \notin {Action.insert, Action.surround, Action.list,
                   Action.toggleGroup}
    \/ /\ ButtonsGet(BUTTONS, buttonName).action = Action.toggleGroup
       /\ Memberless(buttonName)
    \/ buttonName \in hostRejects

\* the label key of buttonName's popup option
LabelOf(buttonName) ==
    IF Truthy(applyTranslation(ButtonsGet(BUTTONS, buttonName).title,
                               buttonName, "title", TRANSLATIONS))
    THEN "composer." \o CBBKEY \o "." \o buttonName \o ".title"
    ELSE "composer.null"

\* what toolbar instance t must hold: the plan's entries wanted on its
\* view that do not fail, in plan order
ExpectedToolbar(t) ==
    LET Kept(entry) == /\ WantedOn(entry, toolbars[t].isDesktop)
                       /\ ~Fails(entry.buttonSpec.name, toolbars[t].hostRejects)
        kept == SelectSeq(layout.toolbar, Kept)
    IN  [i \in 1..Len(kept) |->
            [id |-> makeButtonIdentifier(kept[i].buttonSpec.name),
             group |-> kept[i].section]]

ExpectedPopup ==
    LET Kept(entry) == ~Fails(entry.buttonSpec.name, activationRejects)
        kept == SelectSeq(layout.gearmenu, Kept)
    IN  [i \in 1..Len(kept) |-> LabelOf(kept[i].buttonSpec.name)]

\* C9: a button whose construction or registration fails is left out, and
\* every other plan entry is registered, in plan order, in the popup menu
\* at activation and in every toolbar instance.
C9_FailuresAreIsolated ==
    activated =>
        /\ \A t \in 1..Len(toolbars) :
               [i \in 1..Len(toolbars[t].buttons) |->
                   [id |-> toolbars[t].buttons[i].id,
                    group |-> toolbars[t].buttons[i].group]]
                   = ExpectedToolbar(t)
        /\ [i \in 1..Len(popupOptions) |-> popupOptions[i].label]
               = ExpectedPopup

\* a toolbar in which a button of unknown kind and a memberless toggle
\* failed, and the entries around them were registered
C9_Witness ==
    /\ \E t \in 1..Len(toolbars) :
           /\ Len(toolbars[t].buttons) = 2
           /\ toolbars[t].buttons[1].id = makeButtonIdentifier("bold")
           /\ toolbars[t].buttons[2].id = makeButtonIdentifier("bullet")
           /\ \E i \in 1..Len(layout.toolbar) :
                  layout.toolbar[i].buttonSpec.name = "bad"
    /\ \E t \in 1..Len(toolbars) :
           /\ "bold" \in toolbars[t].hostRejects
           /\ Len(toolbars[t].buttons) = 1
           /\ toolbars[t].buttons[1].id = makeButtonIdentifier("bullet")
    /\ errorLog >= 3

(***************************************************************************)
(* Locale override resolution, checked over tables of overrides            *)
(***************************************************************************)
\* an upper bound on the entries of one translation table
MaxTranslations == 2

OverrideChoices ==
    {[key |-> "foo.title", value |-> "Bar"],
     [key |-> "foo.title", value |-> ""],
     [key |-> "foo.prefix", value |-> "Baz"],
     [key |-> "bar.title", value |-> "Qux"],
     [key |-> "foo.title.title", value |-> "Zed"]}

TableChoices ==
    UNION {[1..n -> OverrideChoices] : n \in 0..MaxTranslations}

ShortTables == {table \in TableChoices : Len(table) <= 1}

TranslationSettings ==
    {<<>>}
    \cup {<<[locale |-> l, translations |-> table]>> :
             l \in LocaleChoices, table \in TableChoices}
    \cup {<<[locale |-> "en", translations |-> t1],
            [locale |-> l, translations |-> t2]>> :
             l \in LocaleChoices, t1 \in ShortTables, t2 \in ShortTables}

QueryButtons == {"foo", "bar", "foo.title"}
QueryParams == {"title", "prefix"}
QueryDefaults == {"Foo", "", Undefined}

InitTranslate == InitWith({<<>>}, TranslationSettings)

\* one resolution of (buttonName, paramName) against TRANSLATIONS
ResolveParameter ==
    /\ activated
    /\ \E b \in QueryButtons, p \in QueryParams, d \in QueryDefaults :
        lastEvent' = [kind |-> "applyTranslation", buttonName |-> b,
                      paramName |-> p, defaultValue |-> d,
                      result |-> applyTranslation(d, b, p, TRANSLATIONS)]
    /\ UNCHANGED <<initializer, layoutSetting, translationsSetting,
                   currentLocale, desktopView, activated, BUTTONS,
                   TRANSLATIONS, TOGGLE_GROUPS, layout, i18nProperties,
                   adoptedStyleSheets, popupOptions, toolbars,
                   activationRejects, errorLog, menuShown, viewportReadIn>>

NextTranslate ==
    \/ Activate
    \/ ResolveParameter

SpecTranslate == InitTranslate /\ [][NextTranslate]_vars

\* the records of settings.translations for the current locale
LocaleRecords ==
    {i \in 1..Len(translationsSetting) :
        translationsSetting[i].locale = currentLocale}

\* the table of the current locale: that of its first record
LocaleTable ==
    translationsSetting[CHOOSE i \in LocaleRecords :
                            \A j \in LocaleRecords : i <= j].translations

\* the positions of the table's entries keyed buttonName.paramName
OverridesOf(table, buttonName, paramName) ==
    {i \in 1..Len(table) : table[i].key = buttonName \o "." \o paramName}

\* C10: resolving (b, p) with default d yields the override when the
\* current locale's table has an entry keyed "b.p" (the first, if there
\* are several), and d when there is no table for the locale or no such
\* entry; entries with other keys do not matter.
C10_OverrideOrDefault ==
    lastEvent.kind = "applyTranslation" =>
        IF LocaleRecords = {}
        THEN lastEvent.result = lastEvent.defaultValue
        ELSE IF OverridesOf(LocaleTable, lastEvent.buttonName,
                            lastEvent.paramName) = {}
        THEN lastEvent.result = lastEvent.defaultValue
        ELSE lastEvent.result =
                 LocaleTable[CHOOSE i \in OverridesOf(LocaleTable,
                                 lastEvent.buttonName, lastEvent.paramName) :
                                 \A j \in OverridesOf(LocaleTable,
                                     lastEvent.buttonName,
                                     lastEvent.paramName) : i <= j].value

\* an empty override, found behind an override for another key, replaces
\* a non-empty default
C10_Witness ==
    /\ lastEvent.kind = "applyTranslation"
    /\ lastEvent.defaultValue = "Foo"
    /\ lastEvent.result = ""
    /\ LocaleRecords # {}
    /\ Len(LocaleTable) = 2
    /\ LocaleTable[1].key # lastEvent.buttonName \o "." \o lastEvent.paramName

(***************************************************************************)
(* Clicks and the edit context                                             *)
(***************************************************************************)
IsClick == lastEvent.kind = "click"

\* the configured button the clicked control was registered for
ClickedButton ==
    CHOOSE b \in DOMAIN BUTTONS :
        lastEvent.id = IF lastEvent.surface = "toolbar"
                       THEN makeButtonIdentifier(b)
                       ELSE LabelOf(b)

ResolvedPrefix(b) ==
    applyTranslation(BUTTONS[b].prefix, b, "prefix", TRANSLATIONS)

ResolvedSuffix(b) ==
    applyTranslation(BUTTONS[b].suffix, b, "suffix", TRANSLATIONS)

ResolvedExampleText(b) ==
    applyTranslation(BUTTONS[b].exampleText, b, "exampleText", TRANSLATIONS)

\* C11: a click on a surround button writes head + example text + tail
\* when the selection is empty and head + selection + tail otherwise, head,
\* tail and example text being the locale-resolved parameters; an empty
\* example text registers no key, a null key is handed to the host, and
\* the edit is then head + tail.
C11_SurroundEdit ==
    (IsClick /\ lastEvent.action.kind = "surround") =>
        /\ lastEvent.call.op = "applySurround"
        /\ lastEvent.edit =
               IF lastEvent.selected.value = <<>>
               THEN ResolvedPrefix(ClickedButton)
                        \o ResolvedExampleText(ClickedButton)
                        \o ResolvedSuffix(ClickedButton)
               ELSE ResolvedPrefix(ClickedButton)
                        \o Text(lastEvent.selected.value)
                        \o ResolvedSuffix(ClickedButton)
        /\ ResolvedExampleText(ClickedButton) = "" =>
               /\ lastEvent.call.exampleTextKey = Null
               /\ <<ClickedButton, "exampleText">> \notin DOMAIN i18nProperties

(***************************************************************************)
(* Ordering                                                                *)
(***************************************************************************)
\* a is b with some elements left out
RECURSIVE IsSubsequence(_, _)
IsSubsequence(a, b) ==
    IF a = <<>> THEN TRUE
    ELSE IF b = <<>> THEN FALSE
    ELSE IF Head(a) = Head(b) THEN IsSubsequence(Tail(a), Tail(b))
    ELSE IsSubsequence(a, Tail(b))

\* the element identifiers of the button names of the layout's tokens, in
\* configuration order
ConfiguredIdsOf(tokens) ==
    [i \in 1..Len(tokens) |->
        makeButtonIdentifier(ToStr(TokenSpec(tokens[i]).name))]

ConfiguredIds == ConfiguredIdsOf(Tokens)


PlanToolbarIds ==
    [i \in 1..Len(layout.toolbar) |->
        [id |-> makeButtonIdentifier(layout.toolbar[i].buttonSpec.name),
         group |-> layout.toolbar[i].section]]

ToolbarIds(t) ==
    [i \in 1..Len(toolbars[t].buttons) |->
        [id |-> toolbars[t].buttons[i].id,
         group |-> toolbars[t].buttons[i].group]]

ToolbarZones == {SECTIONS[k].zone : k \in DOMAIN SECTIONS} \ {Undefined}

ZoneIds(t, zone) ==
    LET InZone(button) == button.group = zone
        inZone == SelectSeq(toolbars[t].buttons, InZone)
    IN  [i \in 1..Len(inZone) |-> inZone[i].id]

\* every zone of every toolbar instance holds its buttons in the order ids
ZonesInOrder(ids) ==
    \A t \in 1..Len(toolbars) : \A zone \in ToolbarZones :
        IsSubsequence(ZoneIds(t, zone), ids)


\* C12: parsing is complete when the first action is constructed: every
\* rule set, whenever it was built, covers the whole membership list of its
\* group as parsing left it; every toolbar instance holds its buttons
\* in plan order, so that within each zone the order of registration is the
\* order of the configuration; the popup options are in plan order too.
C12_ParseThenRegisterInOrder ==
    activated =>
        /\ \A k \in 1..Len(adoptedStyleSheets) :
               /\ adoptedStyleSheets[k].group \in DOMAIN TOGGLE_GROUPS
               /\ adoptedStyleSheets[k].rules
                      = GroupRules(TOGGLE_GROUPS[adoptedStyleSheets[k].group])
        /\ \A t \in 1..Len(toolbars) :
               IsSubsequence(ToolbarIds(t), PlanToolbarIds)
        /\ toolbars # <<>> => ZonesInOrder(ConfiguredIds)
        /\ IsSubsequence([i \in 1..Len(popupOptions) |-> popupOptions[i].label],
                         [i \in 1..Len(layout.gearmenu) |->
                             LabelOf(layout.gearmenu[i].buttonSpec.name)])

\* a popup toggle button, registered at activation, whose rule set covers
\* a member declared after it in the layout; and a toolbar instance with
\* two buttons in one zone
C12_Witness ==
    /\ \E i \in 1..Len(popupOptions) :
           /\ popupOptions[i].action.kind = "toggleGroup"
           /\ adoptedStyleSheets[popupOptions[i].action.sheet].owner = "tog"
           /\ [selector |-> "class", identifier |-> makeButtonIdentifier("bullet")]
                  \in adoptedStyleSheets[popupOptions[i].action.sheet].rules
    /\ \E t \in 1..Len(toolbars) : \E zone \in ToolbarZones :
           Len(ZoneIds(t, zone)) >= 2

(***************************************************************************)
(* Localization keys                                                       *)
(***************************************************************************)
\* the locale-resolved literal of the parameter behind a property name
ResolvedProperty(b, propName) ==
    IF propName = "title"
    THEN applyTranslation(ButtonsGet(BUTTONS, b).title, b, "title",
                          TRANSLATIONS)
    ELSE IF propName = "nonIcon"
    THEN applyTranslation(ButtonsGet(BUTTONS, b).nonIcon, b, "nonIcon",
                          TRANSLATIONS)
    ELSE IF propName = "hover"
    THEN applyTranslation(ButtonsGet(BUTTONS, b).popupHover, b, "popupHover",
                          TRANSLATIONS)
    ELSE applyTranslation(ButtonsGet(BUTTONS, b).exampleText, b,
                          "exampleText", TRANSLATIONS)

\* the key has an entry under component-key -> button -> parameter that
\* holds the locale-resolved literal
KeyRegistered(key) ==
    \E p \in DOMAIN i18nProperties :
        /\ HostKeyOf(p) = key
        /\ i18nProperties[p] = ResolvedProperty(p[1], p[2])

\* the example-text key a callback hands to the host when it runs
ExampleKeysOf(action) ==
    IF action.kind \in {"surround", "list"} /\ action.exampleTextKey # Null
    THEN {"composer." \o action.exampleTextKey}
    ELSE {}

\* the keys handed to the host with the registered toolbar buttons
ToolbarKeys ==
    UNION {UNION {({toolbars[t].buttons[i].label} \ {Null})
                      \cup {toolbars[t].buttons[i].title}
                      \cup ExampleKeysOf(toolbars[t].buttons[i].perform) :
                  i \in 1..Len(toolbars[t].buttons)} :
           t \in 1..Len(toolbars)}

\* the keys handed to the host with the registered popup options
PopupKeys ==
    UNION {{popupOptions[i].label, popupOptions[i].title}
               \cup ExampleKeysOf(popupOptions[i].action) :
           i \in 1..Len(popupOptions)}

\* C13: every key handed to the host for a registered button (title,
\* non-icon label, hover title, example text) has an entry in the
\* localization structure holding the locale-resolved literal, also when
\* the button's title is empty or missing.
C13_HandedKeysAreRegistered ==
    \A key \in ToolbarKeys \cup PopupKeys : KeyRegistered(key)

(***************************************************************************)
(* The elements the hide rules select                                      *)
(***************************************************************************)
\* the data-name attribute of a popup option's element: its name, or its
\* label when it has no name
PopupDataName(option) ==
    IF Truthy(option.name) THEN option.name ELSE option.label

\* the rule set selects the element of a toolbar button: by class
SelectsToolbarButton(sheet, button) ==
    [selector |-> "class", identifier |-> button.id] \in sheet.rules

\* the rule set selects the element of a popup option: by data-name
SelectsPopupOption(sheet, option) ==
    [selector |-> "data-name", identifier |-> PopupDataName(option)]
        \in sheet.rules

\* the names on the membership list of group g
MembersOf(g) ==
    IF g \in DOMAIN TOGGLE_GROUPS
    THEN {TOGGLE_GROUPS[g][i].name : i \in 1..Len(TOGGLE_GROUPS[g])}
    ELSE {}

\* C14: every member of a toggle group is registered under the element
\* identifier derived from its name, in the toolbar and in the popup menu
\* alike, and every rule set of its group selects its element, so that an
\* enabled rule set hides the element as soon as it exists.
C14_MembersRegisteredUnderIdentifier ==
    \A k \in 1..Len(adoptedStyleSheets) :
        \A n \in MembersOf(adoptedStyleSheets[k].group) :
            /\ \A t \in 1..Len(toolbars) :
                   \A i \in 1..Len(toolbars[t].buttons) :
                       toolbars[t].buttons[i].title = LabelOf(n) =>
                           /\ toolbars[t].buttons[i].id
                                  = makeButtonIdentifier(n)
                           /\ SelectsToolbarButton(adoptedStyleSheets[k],
                                                   toolbars[t].buttons[i])
            /\ \A i \in 1..Len(popupOptions) :
                   popupOptions[i].label = LabelOf(n) =>
                       /\ PopupDataName(popupOptions[i])
                              = makeButtonIdentifier(n)
                       /\ SelectsPopupOption(adoptedStyleSheets[k],
                                             popupOptions[i])

(***************************************************************************)
(* Viewport filtering                                                      *)
(***************************************************************************)
\* the layout's entries for button n
EntriesOf(n) ==
    {parseLayoutEntry(Tokens[j]) :
        j \in {i \in 1..Len(Tokens) :
                  ~IsKeyword(Tokens[i]) /\ TokenSpec(Tokens[i]).name = n}}

\* the viewport flags of the layout let button n appear on the view
AllowedOn(n, isDesktop) ==
    \E e \in EntriesOf(n) :
        (isDesktop /\ e.allowDesktop) \/ (~isDesktop /\ e.allowMobile)

\* toolbar instance t holds a button for n in the zone
PlacedIn(t, n, zone) ==
    \E i \in 1..Len(toolbars[t].buttons) :
        /\ toolbars[t].buttons[i].id = makeButtonIdentifier(n)
        /\ toolbars[t].buttons[i].group = zone

\* the open menu shows an option for n
ShownInMenu(n) ==
    \E i \in menuShown : popupOptions[i].label = LabelOf(n)

\* C15: at every toolbar construction and every menu display, a plan entry
\* is placed or shown iff the viewport current at that event is one its
\* flags allow: M on mobile only, D on desktop only, X never, unflagged
\* always (entries whose construction or registration fails aside).
C15_FilterByViewportAtEvent ==
    activated =>
        /\ \A t \in 1..Len(toolbars) : \A i \in 1..Len(layout.toolbar) :
               ~Fails(layout.toolbar[i].buttonSpec.name,
                      toolbars[t].hostRejects) =>
                   (PlacedIn(t, layout.toolbar[i].buttonSpec.name,
                             layout.toolbar[i].section)
                    <=> AllowedOn(layout.toolbar[i].buttonSpec.name,
                                  toolbars[t].isDesktop))
        /\ lastEvent.kind = "menuDisplay" =>
               \A i \in 1..Len(layout.gearmenu) :
                   ~Fails(layout.gearmenu[i].buttonSpec.name,
                          activationRejects) =>
                       (ShownInMenu(layout.gearmenu[i].buttonSpec.name)
                        <=> AllowedOn(layout.gearmenu[i].buttonSpec.name,
                                      lastEvent.isDesktop))

(***************************************************************************)
(* The fields of a button entry, checked over entries built from fields    *)
(***************************************************************************)
\* an upper bound on the comma-separated fields of one entry
MaxFields == 4

FieldChoices == {"", "X", "M", "D", "bold", "g"}

FieldSeqs == UNION {[1..n -> FieldChoices] : n \in 1..MaxFields}

\* the entry whose comma-separated fields are `fields`, as atoms
RECURSIVE JoinComma(_)
JoinComma(fields) ==
    IF Len(fields) = 1
    THEN (IF fields[1] = "" THEN <<>> ELSE <<fields[1]>>)
    ELSE (IF fields[1] = "" THEN <<>> ELSE <<fields[1]>>)
             \o <<SepComma>> \o JoinComma(Tail(fields))

EntrySettings == {JoinComma(fields) : fields \in FieldSeqs}

InitEntry == InitWith(EntrySettings, TranslationChoices)

\* parseLayoutEntry applied to the setting, taken as one entry
ParseOneEntry ==
    /\ lastEvent' = [kind |-> "parseLayoutEntry",
                     result |-> parseLayoutEntry(layoutSetting)]
    /\ UNCHANGED <<initializer, layoutSetting, translationsSetting,
                   currentLocale, desktopView, activated, BUTTONS,
                   TRANSLATIONS, TOGGLE_GROUPS, layout, i18nProperties,
                   adoptedStyleSheets, popupOptions, toolbars,
                   activationRejects, errorLog, menuShown, viewportReadIn>>

NextEntry ==
    \/ ParseOneEntry

SpecEntry == InitEntry /\ [][NextEntry]_vars

\* the fields of an entry, read atom by atom: a comma ends a field
RECURSIVE FieldsFrom(_, _)
FieldsFrom(atoms, field) ==
    IF atoms = <<>> THEN <<field>>
    ELSE IF Head(atoms) = SepComma
    THEN <<field>> \o FieldsFrom(Tail(atoms), "")
    ELSE FieldsFrom(Tail(atoms), field \o Head(atoms))

\* the fields the entry was built from
EntryFields == FieldsFrom(layoutSetting, "")

HasFlag(fields) == fields[1] \in {"X", "M", "D"}

\* the fields behind the viewport flag, if there is one
FieldsBehindFlag(fields) == IF HasFlag(fields) THEN Tail(fields) ELSE fields

FieldOr(fields, i) == IF i <= Len(fields) THEN fields[i] ELSE Undefined

\* C16: behind an optional leading flag X, M or D the fields are read by
\* position as button name, shortcut, toggle group, a missing trailing
\* field being undefined and a fourth field ignored; M allows mobile
\* only, D desktop only, X neither, and no flag allows both.
C16_FieldsArePositional ==
    lastEvent.kind = "parseLayoutEntry" =>
        /\ lastEvent.result.buttonSpec
               = [name |-> FieldOr(FieldsBehindFlag(EntryFields), 1),
                  shortcut |-> FieldOr(FieldsBehindFlag(EntryFields), 2),
                  toggleGroup |-> FieldOr(FieldsBehindFlag(EntryFields), 3)]
        /\ lastEvent.result.allowDesktop
               = (EntryFields[1] \notin {"X", "M"})
        /\ lastEvent.result.allowMobile
               = (EntryFields[1] \notin {"X", "D"})

\* "M,bold,,g" has been parsed: an empty shortcut holds the place before
\* the toggle group
C16_Witness ==
    /\ lastEvent.kind = "parseLayoutEntry"
    /\ layoutSetting = <<"M", ",", "bold", ",", ",", "g">>
    /\ lastEvent.result.buttonSpec
           = [name |-> "bold", shortcut |-> "", toggleGroup |-> "g"]
    /\ ~lastEvent.result.allowDesktop
    /\ lastEvent.result.allowMobile

(***************************************************************************)
(* Clicks on toggleGroup buttons                                           *)
(***************************************************************************)
IsToggleClickEvent == IsClick /\ lastEvent.action.kind = "toggleGroup"

\* C17 as stated: a click on a toggleGroup button calls no mutator of the
\* edit context and leaves the selection (start offset and text) as it
\* was, in the toolbar and in the popup menu alike.
C17_ToggleClickLeavesSelection ==
    IsToggleClickEvent =>
        /\ lastEvent.call.op = "none"
        /\ lastEvent.edit = Null
        /\ lastEvent.selected = lastEvent.given

\* `selected` is `given` with some leading whitespace left out of the
\* selection: the start moved right by as much, the end where it was
OnlyTrimmed(given, selected) ==
    \E k \in 0..Len(given.value) :
        /\ \A j \in 1..k : given.value[j] \in Whitespace
        /\ selected.start = given.start + k
        /\ selected.value = SubSeq(given.value, k + 1, Len(given.value))

\* C17, amended: a click on a toggleGroup button calls no mutator of the
\* edit context; in the toolbar it leaves the selection as it was, in the
\* popup menu the selection changes by the trim of leading whitespace that
\* every popup click applies, and by nothing else; of the adopted rule
\* sets only the one of the clicked callback changes, its hidden flag and
\* its enabled state being flipped, and the localization structure is as
\* it was.
C17_ToggleClickNoEdit ==
    [][IsToggleClick =>
           /\ lastEvent'.call.op = "none"
           /\ lastEvent'.edit = Null
           /\ lastEvent'.surface = "toolbar" =>
                  lastEvent'.selected = lastEvent'.given
           /\ lastEvent'.surface = "popup" =>
                  OnlyTrimmed(lastEvent'.given, lastEvent'.selected)
           /\ Len(adoptedStyleSheets') = Len(adoptedStyleSheets)
           /\ \A k \in 1..Len(adoptedStyleSheets) :
                  adoptedStyleSheets'[k] =
                      IF k = lastEvent'.action.sheet
                      THEN [adoptedStyleSheets[k] EXCEPT
                               !.isHidden = ~adoptedStyleSheets[k].isHidden,
                               !.disabled = ~adoptedStyleSheets[k].disabled]
                      ELSE adoptedStyleSheets[k]
           /\ i18nProperties' = i18nProperties
      ]_vars

\* a toggleGroup option of the popup menu was clicked with a selection
\* that starts with whitespace, while another rule set of the same group
\* is adopted
C17_Witness ==
    /\ IsToggleClickEvent
    /\ lastEvent.surface = "popup"
    /\ lastEvent.given.value # <<>>
    /\ lastEvent.given.value[1] \in Whitespace
    /\ lastEvent.selected # lastEvent.given
    /\ Cardinality(SheetsOfGroup(adoptedStyleSheets,
           adoptedStyleSheets[lastEvent.action.sheet].group)) >= 2

(***************************************************************************)
(* trimLeading, checked over the selections of popup clicks                *)
(***************************************************************************)
\* an upper bound on the length of the selected text
MaxSelectionLength == 3

SelectionCharacters == {" ", "\n", "a"}

SelectionStarts == {0, 5}

TrimSelections ==
    {[start |-> s, value |-> v] :
        s \in SelectionStarts,
        v \in UNION {[1..n -> SelectionCharacters] :
                        n \in 0..MaxSelectionLength}}

InitTrim == InitWith({ExampleLayout, ToggleLayout}, TranslationChoices)

ClickPopupTrim == ClickPopupWith(TrimSelections)

NextTrim ==
    \/ Activate
    \/ MenuDisplay
    \/ ClickPopupTrim

SpecTrim == InitTrim /\ [][NextTrim]_vars

\* the length of the longest prefix of v that is all whitespace
LeadingWhitespace(v) ==
    CHOOSE k \in 0..Len(v) :
        /\ \A j \in 1..k : v[j] \in Whitespace
        /\ k = Len(v) \/ v[k + 1] \notin Whitespace

IsPopupClick == IsClick /\ lastEvent.surface = "popup"

\* C18: a popup click trims the selection (s, v) to (s + k, v without its
\* first k characters), k the length of v's longest all-whitespace
\* prefix: no character is lost, start + length is as before, the text
\* does not begin with whitespace, trimming again changes nothing, and the
\* button's callback works on the trimmed selection.
C18_TrimLeadingShiftsStart ==
    IsPopupClick =>
        /\ lastEvent.selected.value
               = SubSeq(lastEvent.given.value,
                        LeadingWhitespace(lastEvent.given.value) + 1,
                        Len(lastEvent.given.value))
        /\ lastEvent.selected.start
               = lastEvent.given.start
                     + LeadingWhitespace(lastEvent.given.value)
        /\ lastEvent.selected.start + Len(lastEvent.selected.value)
               = lastEvent.given.start + Len(lastEvent.given.value)
        /\ SubSeq(lastEvent.given.value, 1,
                  LeadingWhitespace(lastEvent.given.value))
               \o lastEvent.selected.value = lastEvent.given.value
        /\ lastEvent.selected.value # <<>> =>
               lastEvent.selected.value[1] \notin Whitespace
        /\ trimLeading(lastEvent.selected) = lastEvent.selected
        /\ (lastEvent.action.kind = "surround"
                /\ LeadingWhitespace(lastEvent.given.value)
                       < Len(lastEvent.given.value)) =>
               lastEvent.edit =
                   ResolvedPrefix(ClickedButton)
                       \o Text(SubSeq(lastEvent.given.value,
                               LeadingWhitespace(lastEvent.given.value) + 1,
                               Len(lastEvent.given.value)))
                       \o ResolvedSuffix(ClickedButton)

\* the surround option of the popup menu was clicked with " \na" selected
\* at 5: the callback worked on "a" at 7
C18_Witness ==
    /\ IsPopupClick
    /\ lastEvent.action.kind = "surround"
    /\ lastEvent.given = [start |-> 5, value |-> <<" ", "\n", "a">>]
    /\ lastEvent.selected = [start |-> 7, value |-> <<"a">>]
    /\ lastEvent.edit = "_a_"

(***************************************************************************)
(* Entries flagged X                                                       *)
(***************************************************************************)
\* the configured buttons all of whose layout entries are flagged X
NeverButtons ==
    {n \in ButtonSet :
        /\ EntriesOf(n) # {}
        /\ \A e \in EntriesOf(n) : ~e.allowDesktop /\ ~e.allowMobile}

\* a toolbar instance holds a button for n
InSomeToolbar(n) ==
    \E t \in 1..Len(toolbars) : \E i \in 1..Len(toolbars[t].buttons) :
        toolbars[t].buttons[i].id = makeButtonIdentifier(n)

\* C19: a button whose entries are flagged X is in no toolbar instance and
\* is not shown in the open popup menu, is on no toggle group's membership
\* list, and no action is constructed for it: it has no entry in the
\* localization structure and owns no rule set.
C19_NeverEntriesHaveNoEffect ==
    \A n \in NeverButtons :
        /\ ~InSomeToolbar(n)
        /\ ~ShownInMenu(n)
        /\ n \notin GroupMemberNames(TOGGLE_GROUPS)
        /\ \A p \in DOMAIN i18nProperties : p[1] # n
        /\ \A k \in 1..Len(adoptedStyleSheets) : adoptedStyleSheets[k].owner # n

====
